---- MODULE Spec2Model ----
(***************************************************************************)
(* Model of the MCP tool server: the module-level tool tables of           *)
(* available_tools, the dispatcher's registry (mcp_server.tool_registry)   *)
(* and the JSON-RPC handler (mcp_server.main).                             *)
(*                                                                         *)
(* Python values are tagged records; the tag field t tells the type.       *)
(* A string built by an f-string is the sequence of its fragments, so that *)
(* "the message names X" is "X is one of the fragments".                   *)
(***************************************************************************)
EXTENDS Integers, Sequences, FiniteSets, TLC

VARIABLES
    TOOL_DEFINITIONS,       \* available_tools: name -> ToolDefinition (insertion-ordered dict)
    TOOL_EXECUTORS,         \* available_tools: name -> execute function (insertion-ordered dict)
    TOOL_INITIALIZERS,      \* available_tools: list of initializer functions
    tool_registry,          \* tool_registry._tool_registry: name -> RegisteredTool
    TAVILY_API_KEY,         \* tavily_search_tool.TAVILY_API_KEY, read once at import
    tavily_client,          \* tavily_search_tool.tavily_client
    google_sheets_service,  \* google_sheets_tool.google_sheets_service
    inflight,               \* handlers suspended in await asyncio.to_thread(tavily_client.search)
    out,                    \* the response a handler has just returned, with the request it answers
    blocked,                \* the handler that holds the event loop inside a synchronous Sheets API call
    report,                 \* what the registration pass that has just returned did
    register_log,           \* the register_tool calls made after the import, in order
    fresh                   \* a pass has run and no register_tool call has returned normally since

vars == <<TOOL_DEFINITIONS, TOOL_EXECUTORS, TOOL_INITIALIZERS, tool_registry,
          TAVILY_API_KEY, tavily_client, google_sheets_service, inflight, out,
          blocked, report, register_log, fresh>>

----------------------------------------------------------------------------
(* Bounds *)

\* handlers that may be suspended in the Tavily worker thread at one time
MaxInflight == 2

\* register_tool calls made after the import
MaxRegister == 2

----------------------------------------------------------------------------
(* Python values *)

None == [t |-> "None"]
\* a key that a JSON object does not have
Absent == [t |-> "absent"]
Str(s) == [t |-> "str", s |-> s]
Num(n) == [t |-> "int", n |-> n]
\* a JSON array, by its length
List(len) == [t |-> "list", len |-> len]
\* the inputs object of a call: "empty" is {}, "valid" holds the tool's required fields
Inputs(fields) == [t |-> "inputs", fields |-> fields]
\* a params object: its tool_id and inputs members (Absent when the key is
\* missing) and whether it has any other member
Params(tool_id, inputs, extra) ==
    [t |-> "params", tool_id |-> tool_id, inputs |-> inputs, extra |-> extra]
\* a function object, by its name
Fn(name) == [t |-> "function", name |-> name]
\* a string built from fragments (an f-string, or a literal: one fragment)
FStr(parts) == [t |-> "fstr", parts |-> parts]
\* an external client object
Client(of) == [t |-> "client", of |-> of, gen |-> 1]
\* the client object a construction gives when old is the handle so far: the
\* first object, or another one than old
NewClient(of, old) ==
    IF old = None THEN Client(of) ELSE [t |-> "client", of |-> of, gen |-> old.gen + 1]

\* Python truthiness (bool(v))
Truthy(v) ==
    CASE v.t = "None"   -> FALSE
      [] v.t = "str"    -> v.s # ""
      [] v.t = "int"    -> v.n # 0
      [] v.t = "list"   -> v.len # 0
      [] v.t = "inputs" -> v.fields # "empty"
      [] v.t = "params" -> ~(v.tool_id = Absent /\ v.inputs = Absent /\ ~v.extra)
      [] OTHER          -> TRUE

\* isinstance(v, dict)
IsDict(v) == v.t \in {"params", "inputs", "payload", "dict"}
\* callable(v)
Callable(v) == v.t = "function"
\* isinstance(v, str)
IsStr(v) == v.t \in {"str", "fstr"}

\* params.get(key): the member, None when the key is missing
ParamsGet(params, key) ==
    LET m == IF key = "tool_id" THEN params.tool_id ELSE params.inputs
    IN  IF m = Absent THEN None ELSE m

----------------------------------------------------------------------------
(* Insertion-ordered dicts: a sequence of [k, v] entries with distinct keys *)

EmptyDict == <<>>

\* a dict write that keeps the value a key already has
DictSet_keep_first(d, k, v) ==
    IF \E i \in 1..Len(d) : d[i].k = k THEN d ELSE Append(d, [k |-> k, v |-> v])

DictKeys(d) == [i \in 1..Len(d) |-> d[i].k]
DictValues(d) == [i \in 1..Len(d) |-> d[i].v]
DictHas(d, k) == \E i \in 1..Len(d) : d[i].k = k
\* d.get(k)
DictGet(d, k) ==
    IF DictHas(d, k) THEN d[CHOOSE i \in 1..Len(d) : d[i].k = k].v ELSE None
\* d[k] = v: an existing key keeps its position, a new key goes last
DictSet(d, k, v) ==
    IF DictHas(d, k)
    THEN [i \in 1..Len(d) |-> IF d[i].k = k THEN [k |-> k, v |-> v] ELSE d[i]]
    ELSE Append(d, [k |-> k, v |-> v])

\* x in lst
InList(x, lst) == \E i \in 1..Len(lst) : lst[i] = x

----------------------------------------------------------------------------
(* available_tools: descriptors and registration *)

\* the ToolDefinition a definition getter returns
ToolDefinition(tool_name, description) ==
    [t |-> "ToolDefinition", tool_name |-> tool_name, description |-> description]

get_tavily_search_tool_definition ==
    ToolDefinition("tavily_search", "web search")
get_google_sheets_append_tool_definition ==
    ToolDefinition("google_sheets_append", "append rows")
get_google_sheets_read_tool_definition ==
    ToolDefinition("google_sheets_read", "read range")
get_google_sheets_update_tool_definition ==
    ToolDefinition("google_sheets_update", "update range")

\* the three module-level tables of available_tools
Tables(defs, execs, inits) == [defs |-> defs, execs |-> execs, inits |-> inits, raised |-> FALSE]

\* a register_tool that appends the initializer whatever the flag says
register_tool_always_append(tb, tool_name, definition, executor, initializer, is_initializer_shared) ==
    IF tool_name # definition.tool_name
    THEN [tb EXCEPT !.raised = TRUE]
    ELSE [defs   |-> DictSet(tb.defs, tool_name, definition),
          execs  |-> DictSet(tb.execs, tool_name, executor),
          inits  |-> IF Truthy(initializer) THEN Append(tb.inits, initializer) ELSE tb.inits,
          raised |-> FALSE]

\* a register_tool without the check of the name against the descriptor
register_tool_unchecked(tb, tool_name, definition, executor, initializer, is_initializer_shared) ==
    [defs   |-> DictSet(tb.defs, tool_name, definition),
     execs  |-> DictSet(tb.execs, tool_name, executor),
     inits  |-> IF Truthy(initializer)
                   /\ (~is_initializer_shared \/ ~InList(initializer, tb.inits))
                THEN Append(tb.inits, initializer)
                ELSE tb.inits,
     raised |-> FALSE]

\* a register_tool that stores the descriptor before it compares the names
register_tool_stores_before_check(tb, tool_name, definition, executor, initializer, is_initializer_shared) ==
    IF tool_name # definition.tool_name
    THEN [tb EXCEPT !.defs = DictSet(tb.defs, tool_name, definition), !.raised = TRUE]
    ELSE [defs   |-> DictSet(tb.defs, tool_name, definition),
          execs  |-> DictSet(tb.execs, tool_name, executor),
          inits  |-> IF Truthy(initializer)
                        /\ (~is_initializer_shared \/ ~InList(initializer, tb.inits))
                     THEN Append(tb.inits, initializer)
                     ELSE tb.inits,
          raised |-> FALSE]

\* register_tool: tb is the tables before the call; raised is set when the
\* call raises ValueError, and the tables are then as before
register_tool(tb, tool_name, definition, executor, initializer, is_initializer_shared) ==
    IF tool_name # definition.tool_name
    THEN [tb EXCEPT !.raised = TRUE]
    ELSE [defs   |-> DictSet(tb.defs, tool_name, definition),
          execs  |-> DictSet(tb.execs, tool_name, executor),
          inits  |-> IF Truthy(initializer)
                        /\ (~is_initializer_shared \/ ~InList(initializer, tb.inits))
                     THEN Append(tb.inits, initializer)
                     ELSE tb.inits,
          raised |-> FALSE]

\* the four registrations made when available_tools is imported
ImportedTables ==
    LET t0 == Tables(EmptyDict, EmptyDict, <<>>)
        t1 == register_tool(t0, "tavily_search", get_tavily_search_tool_definition,
                            Fn("execute_tavily_search"),
                            Fn("initialize_tavily_search_tool"), FALSE)
        t2 == register_tool(t1, "google_sheets_append", get_google_sheets_append_tool_definition,
                            Fn("execute_google_sheets_append"),
                            Fn("initialize_google_sheets_tool"), TRUE)
        t3 == register_tool(t2, "google_sheets_read", get_google_sheets_read_tool_definition,
                            Fn("execute_google_sheets_read"),
                            Fn("initialize_google_sheets_tool"), TRUE)
    IN  register_tool(t3, "google_sheets_update", get_google_sheets_update_tool_definition,
                      Fn("execute_google_sheets_update"),
                      Fn("initialize_google_sheets_tool"), TRUE)

----------------------------------------------------------------------------
(* Tool initializers *)

\* how a call of an initializer ends: handle is the module's client handle
\* afterwards
InitResult(handle, raised) == [handle |-> handle, raised |-> raised]

\* initialize_tavily_search_tool; ctor_ok tells whether the TavilyClient
\* constructor returns (it raises otherwise, and nothing here catches that)
initialize_tavily_search_tool(client, api_key, ctor_ok) ==
    IF Truthy(client) THEN InitResult(client, FALSE)
    ELSE IF Truthy(api_key)
    THEN IF ctor_ok THEN InitResult(Client("tavily"), FALSE) ELSE InitResult(client, TRUE)
    ELSE InitResult(client, FALSE)

\* an initialize_google_sheets_tool without the test for a service that is
\* already there
initialize_google_sheets_tool_rebuilds(service, creds_ok) ==
    IF creds_ok THEN NewClient("sheets", service) ELSE None

\* initialize_google_sheets_tool: the service handle after the call; creds_ok
\* tells whether google.auth.default and build succeed this time
initialize_google_sheets_tool(service, creds_ok) ==
    IF Truthy(service) THEN service
    ELSE IF creds_ok THEN Client("sheets")
    ELSE None

\* what the outside world does during one registration pass
PassEnvs == [creds_ok : BOOLEAN, ctor_ok : BOOLEAN]

\* the module-level client handle an initializer reads on entry
InitializerHandle(initializer, tav, svc) ==
    IF initializer = Fn("initialize_tavily_search_tool") THEN tav ELSE svc

\* one call of an initializer function: the two client handles afterwards
\* and whether the call raised
RunInitializer(initializer, tav, svc, api_key, env) ==
    CASE initializer = Fn("initialize_tavily_search_tool") ->
            LET r == initialize_tavily_search_tool(tav, api_key, env.ctor_ok)
            IN  [tav |-> r.handle, svc |-> svc, raised |-> r.raised]
      [] initializer = Fn("initialize_google_sheets_tool") ->
            [tav |-> tav, svc |-> initialize_google_sheets_tool(svc, env.creds_ok),
             raised |-> FALSE]

\* a list of initializers taken as it is, repeats included
UniqueInitializers_with_repeats(inits) == inits

\* the list initialize_all_tools runs: TOOL_INITIALIZERS without repeats,
\* first occurrences kept in order
UniqueInitializers(inits) ==
    LET RECURSIVE uniq(_, _)
        uniq(i, acc) ==
            IF i > Len(inits) THEN acc
            ELSE uniq(i + 1, IF InList(inits[i], acc) THEN acc ELSE Append(acc, inits[i]))
    IN  uniq(1, <<>>)

\* an initialize_all_tools whose loop has no try: the first initializer
\* that raises ends it
initialize_all_tools_no_try(inits, tav, svc, api_key, env) ==
    LET u == UniqueInitializers(inits)
        RECURSIVE loop(_, _)
        loop(i, acc) ==
            IF i > Len(u) THEN acc
            ELSE LET r == RunInitializer(u[i], acc.tav, acc.svc, api_key, env)
                     next == [tav |-> r.tav, svc |-> r.svc, raised |-> r.raised,
                              invoked |-> Append(acc.invoked,
                                                 [initializer |-> u[i], raised |-> r.raised,
                                                  handle |-> InitializerHandle(u[i], acc.tav,
                                                                               acc.svc)])]
                 IN  IF r.raised THEN next ELSE loop(i + 1, next)
    IN  loop(1, [tav |-> tav, svc |-> svc, raised |-> FALSE, invoked |-> <<>>])

\* initialize_all_tools: every unique initializer is called once, in order,
\* and an exception out of one is caught and logged; the result holds the two
\* client handles afterwards, the calls made (invoked) and whether
\* initialize_all_tools itself raised
initialize_all_tools(inits, tav, svc, api_key, env) ==
    LET u == UniqueInitializers(inits)
        RECURSIVE loop(_, _)
        loop(i, acc) ==
            IF i > Len(u) THEN acc
            ELSE LET r == RunInitializer(u[i], acc.tav, acc.svc, api_key, env)
                 IN  loop(i + 1,
                          [tav |-> r.tav, svc |-> r.svc, raised |-> FALSE,
                           invoked |-> Append(acc.invoked,
                                              [initializer |-> u[i], raised |-> r.raised,
                                               handle |-> InitializerHandle(u[i], acc.tav,
                                                                            acc.svc)])])
    IN  loop(1, [tav |-> tav, svc |-> svc, raised |-> FALSE, invoked |-> <<>>])

----------------------------------------------------------------------------
(* tool_registry *)

\* a RegisteredTool named after its execute function
RegisteredTool_named_by_function(name, definition, execute_func) ==
    [t |-> "RegisteredTool", name |-> execute_func.name, definition |-> definition,
     execute_func |-> execute_func]

RegisteredTool(name, definition, execute_func) ==
    [t |-> "RegisteredTool", name |-> name, definition |-> definition,
     execute_func |-> execute_func]

\* a loop that empties the registry on every turn
RegisterAll_reset_in_loop(defs, execs) ==
    IF defs = <<>> THEN EmptyDict
    ELSE LET tool_name == defs[Len(defs)].k
             executor == DictGet(execs, tool_name)
         IN  IF executor # None
             THEN DictSet(EmptyDict, tool_name,
                          RegisteredTool(tool_name, defs[Len(defs)].v, executor))
             ELSE EmptyDict

\* the loop of discover_and_register_tools over TOOL_DEFINITIONS, from an
\* empty registry
RegisterAll(defs, execs) ==
    LET RECURSIVE loop(_, _)
        loop(i, reg) ==
            IF i > Len(defs) THEN reg
            ELSE LET tool_name == defs[i].k
                     executor == DictGet(execs, tool_name)
                 IN  loop(i + 1,
                          IF executor # None
                          THEN DictSet(reg, tool_name,
                                       RegisteredTool(tool_name, defs[i].v, executor))
                          ELSE reg)
    IN  loop(1, EmptyDict)

\* a pass that gives up after the first tool when an initializer made no client
discover_and_register_tools_partial(defs, execs, inits, tav, svc, api_key, env) ==
    LET h == initialize_all_tools(inits, tav, svc, api_key, env)
    IN  [registry |-> IF h.svc = None
                      THEN RegisterAll(SubSeq(defs, 1, 1), execs)
                      ELSE RegisterAll(defs, execs),
         tav |-> h.tav, svc |-> h.svc, invoked |-> h.invoked]

\* a pass that empties the registry and does not rebuild it once the Tavily client exists
discover_and_register_tools_rebuilds_once(defs, execs, inits, tav, svc, api_key, env) ==
    LET h == initialize_all_tools(inits, tav, svc, api_key, env)
    IN  [registry |-> IF tav # None THEN EmptyDict ELSE RegisterAll(defs, execs),
         tav |-> h.tav, svc |-> h.svc, invoked |-> h.invoked]

\* discover_and_register_tools: the registry is emptied, initialize_all_tools
\* runs and the registry is rebuilt from the tables; an exception out of
\* initialize_all_tools is caught by the function's own try, which leaves the
\* registry empty. The result holds the new registry, the two client handles
\* and the initializer calls made
discover_and_register_tools(defs, execs, inits, tav, svc, api_key, env) ==
    LET h == initialize_all_tools(inits, tav, svc, api_key, env)
    IN  [registry |-> IF h.raised THEN EmptyDict ELSE RegisterAll(defs, execs),
         tav |-> h.tav, svc |-> h.svc, invoked |-> h.invoked]

\* the descriptors from the last registered tool to the first
get_all_tool_definitions_newest_first(reg) ==
    [i \in 1..Len(reg) |-> reg[Len(reg) + 1 - i].v.definition]

\* get_all_tool_definitions
get_all_tool_definitions(reg) ==
    [i \in 1..Len(reg) |-> reg[i].v.definition]

----------------------------------------------------------------------------
(* Invocation outcomes and the execute functions *)

\* {"status": ..., "output": ..., "error": ...}; output is Absent when the
\* dict has no "output" key
Payload(status, output, error) ==
    [t |-> "payload", status |-> status, output |-> output, error |-> error]
Success(output) == Payload("success", output, None)
Failure(message) == Payload("failure", None, FStr(message))
\* the payload a client's API call produced
Data(of) == [t |-> "data", of |-> of]

\* texts of the exceptions the external libraries raise
ExcTexts == {"e1", "e2"}

\* what one call of the Sheets API does: values with data ("ok"), no values
\* ("empty"), only blank cells ("blank"), an HttpError whose fields format
\* ("http_error"), an HttpError whose content does not decode, so that the
\* except clause itself raises ("http_error_raise"), another exception
ApiOutcomes ==
    {[kind |-> k, exc |-> ""] : k \in {"ok", "empty", "blank", "http_error"}}
    \cup {[kind |-> k, exc |-> e] : k \in {"http_error_raise", "exception"}, e \in ExcTexts}

\* what the Tavily worker thread's search call does
SearchOutcomes ==
    {[kind |-> "ok", exc |-> ""]} \cup {[kind |-> "exception", exc |-> e] : e \in ExcTexts}

\* what the outside world does during one handler run
Envs == [creds_ok : BOOLEAN, api : ApiOutcomes]

\* how a coroutine ends or suspends: it returns value, raises exc, or awaits
\* the worker thread; service is google_sheets_service afterwards
Return(value, service) == [kind |-> "return", value |-> value, exc |-> "", service |-> service]
Raise(exc, service) == [kind |-> "raise", value |-> None, exc |-> exc, service |-> service]
Await(service) == [kind |-> "await", value |-> None, exc |-> "", service |-> service]

\* an execute_tavily_search that does not look at the client first
execute_tavily_search_unchecked(inputs, client, service) ==
    IF inputs.fields # "valid"
    THEN Return(Failure(<<"Invalid input: 'query' is missing or not a string.">>), service)
    ELSE Await(service)

\* execute_tavily_search up to its await
execute_tavily_search(inputs, client, service) ==
    IF ~Truthy(client)
    THEN Return(Failure(<<"Tool error: Tavily client not initialized.">>), service)
    ELSE IF inputs.fields # "valid"
    THEN Return(Failure(<<"Invalid input: 'query' is missing or not a string.">>), service)
    ELSE Await(service)

\* execute_tavily_search from the await on: search is the thread's outcome
tavily_search_result(search) ==
    IF search.kind = "ok"
    THEN Success(Data("tavily_search"))
    ELSE Failure(<<"Tool execution error: ", search.exc>>)

\* a lazy initialisation that does not look at the handle first
sheets_lazy_init_unguarded(service, creds_ok) ==
    IF creds_ok THEN NewClient("sheets", service) ELSE service

\* the lazy initialisation the three Sheets execute functions start with
sheets_lazy_init(service, creds_ok) ==
    IF ~Truthy(service) THEN initialize_google_sheets_tool(service, creds_ok) ELSE service

\* execute_google_sheets_append and execute_google_sheets_update, which
\* differ in the operation's name only
sheets_write(op, inputs, service, env) ==
    LET s == sheets_lazy_init(service, env.creds_ok)
    IN  IF ~Truthy(s)
        THEN Return(Failure(<<"Tool error: Google Sheets client not initialized.">>), s)
        ELSE IF inputs.fields # "valid"
        THEN Return(Failure(<<"Invalid input for ", op, ": ", "validation error">>), s)
        ELSE CASE env.api.kind = "http_error" ->
                    Return(Failure(<<"API error (", op, "): ", "status - reason. Details: content">>), s)
               [] env.api.kind = "http_error_raise" -> Raise(env.api.exc, s)
               [] env.api.kind = "exception" ->
                    Return(Failure(<<"Tool execution error (", op, "): ", env.api.exc>>), s)
               [] OTHER -> Return(Success(Data(op)), s)

execute_google_sheets_append(inputs, service, env) == sheets_write("append", inputs, service, env)

execute_google_sheets_update(inputs, service, env) == sheets_write("update", inputs, service, env)

execute_google_sheets_read(inputs, service, env) ==
    LET s == sheets_lazy_init(service, env.creds_ok)
    IN  IF ~Truthy(s)
        THEN Return(Failure(<<"Tool error: Google Sheets client not initialized.">>), s)
        ELSE IF inputs.fields # "valid"
        THEN Return(Failure(<<"Invalid input for read: ", "validation error">>), s)
        ELSE CASE env.api.kind = "empty" ->
                    Return(Payload("failure", Absent, FStr(<<"Empty spreadsheet data">>)), s)
               [] env.api.kind = "blank" ->
                    Return(Failure(<<"No meaningful data found in spreadsheet range. Check: ",
                                     "current range">>), s)
               [] env.api.kind = "http_error" ->
                    Return(Failure(<<"API error (read): ", "status - reason. Details: content">>), s)
               [] env.api.kind = "http_error_raise" -> Raise(env.api.exc, s)
               [] env.api.kind = "exception" ->
                    Return(Failure(<<"Tool execution error (read): ", env.api.exc>>), s)
               [] OTHER -> Return(Success(Data("read")), s)

\* await tool.execute_func(inputs), by the function called
Execute(execute_func, inputs, client, service, env) ==
    CASE execute_func = Fn("execute_tavily_search") ->
            execute_tavily_search(inputs, client, service)
      [] execute_func = Fn("execute_google_sheets_append") ->
            execute_google_sheets_append(inputs, service, env)
      [] execute_func = Fn("execute_google_sheets_read") ->
            execute_google_sheets_read(inputs, service, env)
      [] execute_func = Fn("execute_google_sheets_update") ->
            execute_google_sheets_update(inputs, service, env)

----------------------------------------------------------------------------
(* tool_registry.call_tool *)

\* call_tool as main.py's comment has it: nothing returned on a failed execution
call_tool_except_none(tool_name, exc) == None

\* the payload call_tool builds when execute_func raises exc
call_tool_except(tool_name, exc) ==
    Failure(<<"Internal error during '", tool_name, "' execution: ", exc>>)

\* the payload call_tool builds when the registry has no such tool
call_tool_not_found(tool_name) ==
    Failure(<<"Tool '", tool_name, "' not found or not executable.">>)

\* the module-level client handle an execute function reads on entry
HandleOf(execute_func, client, service) ==
    IF execute_func = Fn("execute_tavily_search") THEN client ELSE service

\* whether a run of the execute function gets as far as the call of the
\* external API: the client is there (for Sheets, after the lazy
\* initialisation) and the inputs validate
ReachesApi(execute_func, inputs, client, service, env) ==
    /\ inputs.fields = "valid"
    /\ IF execute_func = Fn("execute_tavily_search")
       THEN Truthy(client)
       ELSE Truthy(sheets_lazy_init(service, env.creds_ok))

\* the initializer calls the guard at the head of a Sheets execute function
\* makes: one when the service is unset, none when it is there
sheets_lazy_init_calls(service) ==
    IF ~Truthy(service) THEN <<Fn("initialize_google_sheets_tool")>> ELSE <<>>

\* an execute_tavily_search that calls its initializer when the client is unset
InitializerCalls_tavily_lazy(execute_func, client, service) ==
    IF execute_func = Fn("execute_tavily_search")
    THEN IF ~Truthy(client) THEN <<Fn("initialize_tavily_search_tool")>> ELSE <<>>
    ELSE sheets_lazy_init_calls(service)

\* the initializer calls one run of an execute function makes, in order:
\* execute_tavily_search makes none, a Sheets execute function those of its
\* guard
InitializerCalls(execute_func, client, service) ==
    IF execute_func = Fn("execute_tavily_search")
    THEN <<>>
    ELSE sheets_lazy_init_calls(service)

\* one invocation of an execute function, as call_tool saw it end: kind is
\* "return" (with the value returned), "raise" (with the exception's text) or
\* "await" (suspended in the worker thread); handle is the client handle the
\* function found on entry, api tells whether it called the external API and
\* initializer_calls lists the initializers it called
Invocation(execute_func, r, handle, api, initializer_calls) ==
    [func |-> execute_func, kind |-> r.kind, value |-> r.value, exc |-> r.exc,
     handle |-> handle, api |-> api, initializer_calls |-> initializer_calls]

\* a call_tool that calls execute_func a second time when the first call raised
call_tool_retry(tool_name, inputs, reg, client, service, env) ==
    LET tool == DictGet(reg, tool_name)
    IN  IF Truthy(tool) /\ Callable(tool.execute_func)
        THEN LET r == Execute(tool.execute_func, inputs, client, service, env)
                 call == Invocation(tool.execute_func, r,
                                    HandleOf(tool.execute_func, client, service),
                                    ReachesApi(tool.execute_func, inputs, client,
                                               service, env),
                                    InitializerCalls(tool.execute_func, client, service))
             IN  IF r.kind = "raise"
                 THEN Return(call_tool_except(tool_name, r.exc), r.service)
                        @@ [calls |-> <<call, call>>]
                 ELSE r @@ [calls |-> <<call>>]
        ELSE Return(call_tool_not_found(tool_name), service) @@ [calls |-> <<>>]

\* call_tool up to the return or to the await inside execute_func; calls
\* lists the invocations of execute functions it made
call_tool(tool_name, inputs, reg, client, service, env) ==
    LET tool == DictGet(reg, tool_name)
    IN  IF Truthy(tool) /\ Callable(tool.execute_func)
        THEN LET r == Execute(tool.execute_func, inputs, client, service, env)
                 calls == <<Invocation(tool.execute_func, r,
                                       HandleOf(tool.execute_func, client, service),
                                       ReachesApi(tool.execute_func, inputs, client,
                                                  service, env),
                                       InitializerCalls(tool.execute_func, client, service))>>
             IN  IF r.kind = "raise"
                 THEN Return(call_tool_except(tool_name, r.exc), r.service) @@ [calls |-> calls]
                 ELSE r @@ [calls |-> calls]
        ELSE Return(call_tool_not_found(tool_name), service) @@ [calls |-> <<>>]

----------------------------------------------------------------------------
(* mcp_server.main: the JSON-RPC handler *)

\* JSON-RPC error codes of main.py
INVALID_PARAMS == -32602
METHOD_NOT_FOUND == -32601

\* JsonRpcResponse(result=..., error=..., id=...); a field not given is None
JsonRpcResponse(result, error, id) ==
    [jsonrpc |-> "2.0", result |-> result, error |-> error, id |-> id]

\* the error dicts of main.py
ErrorObject(code, message) == [t |-> "error", code |-> code, message |-> FStr(message)]

\* the params error under the code of "Invalid Request"
ParamsError_invalid_request ==
    ErrorObject(-32600, <<"Invalid params: 'params' must be an object for mcp_call_tool.">>)

ParamsError ==
    ErrorObject(INVALID_PARAMS, <<"Invalid params: 'params' must be an object for mcp_call_tool.">>)
ToolIdError ==
    ErrorObject(INVALID_PARAMS, <<"Invalid params: 'tool_id' is missing or not a string.">>)
InputsError ==
    ErrorObject(INVALID_PARAMS, <<"Invalid params: 'inputs' is missing or not an object.">>)
ToolUnavailableError(tool_name) ==
    ErrorObject(METHOD_NOT_FOUND,
                <<"Method not found or error: Tool with id '", tool_name,
                  "' is not available or failed execution.">>)
\* an unknown-method error that leaves the method out of its message
MethodError_unnamed(method) ==
    ErrorObject(METHOD_NOT_FOUND, <<"Method not found.">>)

MethodError(method) ==
    ErrorObject(METHOD_NOT_FOUND, <<"Method '", method, "' not found.">>)

\* td.model_dump(): the dict of the descriptor's fields
model_dump(td) == [t |-> "dict", tool_name |-> td.tool_name, description |-> td.description]

\* the result of mcp_list_tools
ListResult(definitions) ==
    [t |-> "array", items |-> [i \in 1..Len(definitions) |-> model_dump(definitions[i])]]

\* the three checks the handler makes on a call's params
ParamsInvalid(params) == ~Truthy(params) \/ ~IsDict(params)
ToolIdInvalid(tool_name) == ~Truthy(tool_name) \/ ~IsStr(tool_name)
InputsInvalid(inputs) == inputs = None \/ ~IsDict(inputs)

\* a handler that hands on the payload's output instead of the payload
PayloadResponse_output(tool_execution_payload, tool_name, id) ==
    IF Truthy(tool_execution_payload)
    THEN JsonRpcResponse(tool_execution_payload.output, None, id)
    ELSE JsonRpcResponse(None, ToolUnavailableError(tool_name), id)

\* a handler that adds the error object to a failure payload's response
PayloadResponse_both(tool_execution_payload, tool_name, id) ==
    IF Truthy(tool_execution_payload)
    THEN JsonRpcResponse(tool_execution_payload,
                         IF tool_execution_payload.status = "failure"
                         THEN ToolUnavailableError(tool_name) ELSE None,
                         id)
    ELSE JsonRpcResponse(None, ToolUnavailableError(tool_name), id)

\* a handler that reports a failure payload as a JSON-RPC error
PayloadResponse_failure_as_error(tool_execution_payload, tool_name, id) ==
    IF Truthy(tool_execution_payload) /\ tool_execution_payload.status = "success"
    THEN JsonRpcResponse(tool_execution_payload, None, id)
    ELSE JsonRpcResponse(None, ToolUnavailableError(tool_name), id)

\* the handler from the return of call_tool on
PayloadResponse(tool_execution_payload, tool_name, id) ==
    IF Truthy(tool_execution_payload)
    THEN JsonRpcResponse(tool_execution_payload, None, id)
    ELSE JsonRpcResponse(None, ToolUnavailableError(tool_name), id)

\* a handler run that has returned resp
Responded(resp, service, calls) ==
    [kind |-> "return", resp |-> resp, service |-> service, calls |-> calls]
\* a handler run suspended in call_tool
Suspended(service, calls) ==
    [kind |-> "await", resp |-> None, service |-> service, calls |-> calls]

\* mcp_rpc_handler up to its return or to the await inside execute_func
mcp_rpc_handler(request, reg, client, service, env) ==
    IF request.method = "mcp_list_tools"
    THEN Responded(JsonRpcResponse(ListResult(get_all_tool_definitions(reg)), None, request.id),
                   service, <<>>)
    ELSE IF request.method = "mcp_call_tool"
    THEN IF ParamsInvalid(request.params)
         THEN Responded(JsonRpcResponse(None, ParamsError, request.id), service, <<>>)
         ELSE LET tool_name == ParamsGet(request.params, "tool_id")
                  inputs == ParamsGet(request.params, "inputs")
              IN  IF ToolIdInvalid(tool_name)
                  THEN Responded(JsonRpcResponse(None, ToolIdError, request.id), service, <<>>)
                  ELSE IF InputsInvalid(inputs)
                  THEN Responded(JsonRpcResponse(None, InputsError, request.id), service, <<>>)
                  ELSE LET c == call_tool(tool_name.s, inputs, reg, client, service, env)
                       IN  IF c.kind = "await"
                           THEN Suspended(c.service, c.calls)
                           ELSE Responded(PayloadResponse(c.value, tool_name.s, request.id),
                                          c.service, c.calls)
    ELSE Responded(JsonRpcResponse(None, MethodError(request.method), request.id), service, <<>>)

----------------------------------------------------------------------------
(* mcp_server.main: the schema endpoint *)

\* app.version
APP_VERSION == "1.0.0"

\* ServerSchemaResponse(name=..., description=..., version=..., tools=...)
ServerSchemaResponse(name, description, version, tools) ==
    [t |-> "ServerSchemaResponse", name |-> name, description |-> description,
     version |-> version, tools |-> tools]

\* a schema endpoint that lists the tools from the last registered to the first
get_server_schema_reversed(reg) ==
    LET tools_definitions == get_all_tool_definitions(reg)
        n == Len(tools_definitions)
    IN  ServerSchemaResponse(
            "Unified MCP Tool Server",
            "Provides access to various tools via the MCP JSON-RPC interface. This schema describes the server and its available tools.",
            APP_VERSION,
            [i \in 1..n |-> tools_definitions[n + 1 - i]])

\* get_server_schema: the model object the endpoint returns
get_server_schema(reg) ==
    LET tools_definitions == get_all_tool_definitions(reg)
    IN  ServerSchemaResponse(
            "Unified MCP Tool Server",
            "Provides access to various tools via the MCP JSON-RPC interface. This schema describes the server and its available tools.",
            APP_VERSION,
            tools_definitions)

\* the JSON body FastAPI makes of the returned model (response_model): the
\* three strings, and the tools as an array of the descriptors' dicts
SchemaJson(schema) ==
    [t |-> "object", name |-> schema.name, description |-> schema.description,
     version |-> schema.version,
     tools |-> [t |-> "array",
                items |-> [i \in 1..Len(schema.tools) |->
                              [t |-> "dict", tool_name |-> schema.tools[i].tool_name,
                               description |-> schema.tools[i].description]]]]

----------------------------------------------------------------------------
(* Requests *)

Methods == {"mcp_list_tools", "mcp_call_tool", "rpc.discover"}

RequestIds == {None, Num(1), Str("a")}

ToolIds ==
    {Absent, None, Num(7), Str(""), Str("tavily_search"), Str("google_sheets_append"),
     Str("google_sheets_read"), Str("nonexistent")}

InputsValues == {Absent, None, List(1), Inputs("empty"), Inputs("valid")}

\* params: absent, an array, or an object; {"x": 1} is the one object drawn
\* with a member other than tool_id and inputs
ParamsValues ==
    {None, List(0), List(1), Params(Absent, Absent, TRUE)}
    \cup {Params(tid, inp, FALSE) : tid \in ToolIds, inp \in InputsValues}

\* JsonRpcRequest
Requests == [method : Methods, params : ParamsValues, id : RequestIds]

----------------------------------------------------------------------------
(* The state machine *)

Init ==
    /\ TOOL_DEFINITIONS = ImportedTables.defs
    /\ TOOL_EXECUTORS = ImportedTables.execs
    /\ TOOL_INITIALIZERS = ImportedTables.inits
    /\ tool_registry = EmptyDict
    /\ TAVILY_API_KEY \in {None, Str("tvly-key")}
    /\ tavily_client = None
    /\ google_sheets_service = None
    /\ inflight = <<>>
    /\ out = None
    /\ blocked = None
    /\ report = None
    /\ register_log = <<>>
    /\ fresh = FALSE

\* the event loop is free and the last step's result has been taken
Idle == out = None /\ blocked = None /\ report = None

\* what a registration pass did: the initializer calls it made, in order
PassReport(invoked) == [op |-> "discover", invoked |-> invoked]

\* discover_and_register_tools (the lifespan startup, or a later pass)
Discover ==
    /\ Idle
    /\ \E env \in PassEnvs :
         LET d == discover_and_register_tools(TOOL_DEFINITIONS, TOOL_EXECUTORS,
                                              TOOL_INITIALIZERS, tavily_client,
                                              google_sheets_service, TAVILY_API_KEY, env)
         IN  /\ tool_registry' = d.registry
             /\ tavily_client' = d.tav
             /\ google_sheets_service' = d.svc
             /\ report' = PassReport(d.invoked)
    /\ fresh' = TRUE
    /\ UNCHANGED <<TOOL_DEFINITIONS, TOOL_EXECUTORS, TOOL_INITIALIZERS, TAVILY_API_KEY,
                   inflight, out, blocked, register_log>>

\* the pass's caller (the lifespan) goes on
Started ==
    /\ report # None
    /\ report' = None
    /\ UNCHANGED <<TOOL_DEFINITIONS, TOOL_EXECUTORS, TOOL_INITIALIZERS, tool_registry,
                   TAVILY_API_KEY, tavily_client, google_sheets_service, inflight, out,
                   blocked, register_log, fresh>>

\* whether a handler run called a synchronous API (a Sheets execute's
\* .execute()): the coroutine does not yield during it, so the event loop
\* runs nothing else until the call returns
HoldsEventLoop(h) ==
    /\ h.calls # <<>>
    /\ h.calls[1].func # Fn("execute_tavily_search")
    /\ h.calls[1].api

\* POST /mcp for a request of the set requests: mcp_rpc_handler runs on the
\* event loop until it returns, suspends in the Tavily worker thread or
\* enters a synchronous Sheets API call
Serve(requests, envs) ==
    /\ Idle
    /\ \E request \in requests, env \in envs :
         LET h == mcp_rpc_handler(request, tool_registry, tavily_client,
                                  google_sheets_service, env)
         IN  /\ google_sheets_service' = h.service
             /\ IF h.kind = "await"
                THEN /\ Len(inflight) < MaxInflight
                     /\ inflight' = Append(inflight, [request |-> request, calls |-> h.calls])
                     /\ out' = out
                     /\ blocked' = blocked
                ELSE IF HoldsEventLoop(h)
                THEN /\ blocked' = [request |-> request, calls |-> h.calls]
                     /\ out' = out
                     /\ inflight' = inflight
                ELSE /\ out' = [request |-> request, resp |-> h.resp, calls |-> h.calls]
                     /\ inflight' = inflight
                     /\ blocked' = blocked
    /\ UNCHANGED <<TOOL_DEFINITIONS, TOOL_EXECUTORS, TOOL_INITIALIZERS, tool_registry,
                   TAVILY_API_KEY, tavily_client, report, register_log, fresh>>

Handle == Serve(Requests, Envs)

\* the synchronous Sheets API call of the blocked handler returns or raises,
\* and the handler runs on to its return. The run is the handler's run from
\* its start in the present state: nothing has run since it entered the call
\* and the service handle is set, so it takes the same path to the call; the
\* handle the execute function found on entry is the one noted then
Unblock ==
    /\ blocked # None
    /\ \E env \in Envs :
         LET h == mcp_rpc_handler(blocked.request, tool_registry, tavily_client,
                                  google_sheets_service, env)
         IN  out' = [request |-> blocked.request, resp |-> h.resp,
                     calls |-> <<[h.calls[1] EXCEPT
                                     !.handle = blocked.calls[1].handle,
                                     !.initializer_calls = blocked.calls[1].initializer_calls]>>]
    /\ blocked' = None
    /\ UNCHANGED <<TOOL_DEFINITIONS, TOOL_EXECUTORS, TOOL_INITIALIZERS, tool_registry,
                   TAVILY_API_KEY, tavily_client, google_sheets_service, inflight,
                   report, register_log, fresh>>

\* a resumed run that answers with the id of the oldest suspended request
ResumedRun_oldest_id(waiting, i, search) ==
    LET w == waiting[i]
        tool_name == ParamsGet(w.request.params, "tool_id").s
        payload == tavily_search_result(search)
    IN  [request |-> w.request,
         resp |-> PayloadResponse(payload, tool_name, waiting[1].request.id),
         calls |-> <<[w.calls[1] EXCEPT !.kind = "return", !.value = payload]>>]

\* the handler run of waiting[i] from the end of its worker thread on:
\* execute_tavily_search, call_tool and mcp_rpc_handler run on to the
\* handler's return
ResumedRun(waiting, i, search) ==
    LET w == waiting[i]
        tool_name == ParamsGet(w.request.params, "tool_id").s
        payload == tavily_search_result(search)
    IN  [request |-> w.request,
         resp |-> PayloadResponse(payload, tool_name, w.request.id),
         calls |-> <<[w.calls[1] EXCEPT !.kind = "return", !.value = payload]>>]

\* the worker thread of a suspended handler finishes, in any order
Resume ==
    /\ Idle
    /\ \E i \in 1..Len(inflight), search \in SearchOutcomes :
         /\ out' = ResumedRun(inflight, i, search)
         /\ inflight' = [j \in 1..(Len(inflight) - 1) |->
                            IF j < i THEN inflight[j] ELSE inflight[j + 1]]
    /\ UNCHANGED <<TOOL_DEFINITIONS, TOOL_EXECUTORS, TOOL_INITIALIZERS, tool_registry,
                   TAVILY_API_KEY, tavily_client, google_sheets_service,
                   blocked, report, register_log, fresh>>

\* the response goes back to the client
Send ==
    /\ out # None
    /\ out' = None
    /\ UNCHANGED <<TOOL_DEFINITIONS, TOOL_EXECUTORS, TOOL_INITIALIZERS, tool_registry,
                   TAVILY_API_KEY, tavily_client, google_sheets_service, inflight,
                   blocked, report, register_log, fresh>>

Next == Discover \/ Started \/ Handle \/ Unblock \/ Resume \/ Send

\* the request line of GET /schema, in the place of a JSON-RPC request
SchemaRequest == [method |-> "GET /schema", params |-> None, id |-> None]

\* a schema endpoint that starts from an emptied registry
Schema_resets_registry ==
    /\ Idle
    /\ tool_registry' = EmptyDict
    /\ out' = [request |-> SchemaRequest,
               resp |-> SchemaJson(get_server_schema(EmptyDict)), calls |-> <<>>]
    /\ UNCHANGED <<TOOL_DEFINITIONS, TOOL_EXECUTORS, TOOL_INITIALIZERS,
                   TAVILY_API_KEY, tavily_client, google_sheets_service, inflight,
                   blocked, report, register_log, fresh>>

\* GET /schema: get_server_schema runs to its return
Schema ==
    /\ Idle
    /\ out' = [request |-> SchemaRequest,
               resp |-> SchemaJson(get_server_schema(tool_registry)), calls |-> <<>>]
    /\ UNCHANGED <<TOOL_DEFINITIONS, TOOL_EXECUTORS, TOOL_INITIALIZERS, tool_registry,
                   TAVILY_API_KEY, tavily_client, google_sheets_service, inflight,
                   blocked, report, register_log, fresh>>

\* the two endpoints of the app
NextEndpoints == Next \/ Schema

\* the handler may run in any state from the import on (an application
\* mounted or called without its lifespan serves from the empty registry)
Spec == Init /\ [][Next]_vars

\* the state when the lifespan startup has run discover_and_register_tools
\* and the server starts to serve
InitServing ==
    /\ TOOL_DEFINITIONS = ImportedTables.defs
    /\ TOOL_EXECUTORS = ImportedTables.execs
    /\ TOOL_INITIALIZERS = ImportedTables.inits
    /\ TAVILY_API_KEY \in {None, Str("tvly-key")}
    /\ \E env \in PassEnvs :
         LET d == discover_and_register_tools(ImportedTables.defs, ImportedTables.execs,
                                              ImportedTables.inits, None, None,
                                              TAVILY_API_KEY, env)
         IN  /\ tool_registry = d.registry
             /\ tavily_client = d.tav
             /\ google_sheets_service = d.svc
    /\ inflight = <<>>
    /\ out = None
    /\ blocked = None
    /\ report = None
    /\ register_log = <<>>
    /\ fresh = TRUE

\* the server as uvicorn runs it: requests arrive after the startup
SpecServing == InitServing /\ [][Next]_vars

\* the same server with both of its endpoints
SpecEndpoints == InitServing /\ [][NextEndpoints]_vars

----------------------------------------------------------------------------
(* Registrations after the import *)

\* names a later register_tool call may give: one the import has registered
\* and a new one
RegNames == {"google_sheets_read", "extra_tool"}

\* the arguments of a later register_tool call; the descriptor may carry
\* another name than the call's, the initializer may be absent (the flag is
\* then left at its default)
RegisterCalls ==
    {c \in [tool_name : RegNames,
            definition : {ToolDefinition(n, "second description") : n \in RegNames},
            executor : {Fn("execute_google_sheets_append")},
            initializer : {None, Fn("initialize_google_sheets_tool")},
            is_initializer_shared : BOOLEAN] :
        c.initializer = None => ~c.is_initializer_shared}

\* register_tool called by a module that adds or replaces a tool
RegisterTool ==
    /\ Idle
    /\ Len(register_log) < MaxRegister
    /\ \E c \in RegisterCalls :
         LET tb == register_tool(Tables(TOOL_DEFINITIONS, TOOL_EXECUTORS, TOOL_INITIALIZERS),
                                 c.tool_name, c.definition, c.executor, c.initializer,
                                 c.is_initializer_shared)
         IN  /\ TOOL_DEFINITIONS' = tb.defs
             /\ TOOL_EXECUTORS' = tb.execs
             /\ TOOL_INITIALIZERS' = tb.inits
             /\ register_log' = Append(register_log, [call |-> c, raised |-> tb.raised])
             /\ fresh' = (fresh /\ tb.raised)
    /\ UNCHANGED <<tool_registry, TAVILY_API_KEY, tavily_client, google_sheets_service,
                   inflight, out, blocked, report>>

\* the requests sent while tools are added: the list with and without
\* params, and a call of each name that may be registered
RegRequests ==
    {[method |-> "mcp_list_tools", params |-> p, id |-> Num(1)] : p \in {None, List(1)}}
    \cup {[method |-> "mcp_call_tool", params |-> Params(Str(n), Inputs("valid"), FALSE),
           id |-> Num(1)] : n \in RegNames}

RegEnvs == [creds_ok : BOOLEAN, api : {[kind |-> "ok", exc |-> ""]}]

HandleRegistered == Serve(RegRequests, RegEnvs)

\* no request drawn here calls tavily_search, so no handler suspends
NextReg ==
    RegisterTool \/ Discover \/ Started \/ HandleRegistered \/ Unblock \/ Send \/ Schema

\* the server with modules that register tools at any time
SpecReg == Init /\ [][NextReg]_vars

----------------------------------------------------------------------------
(* Properties of the responses *)

\* a handler has just returned: out holds its request, its response and the
\* invocations of execute functions it made
Answered == out # None
AnsweredCall == Answered /\ out.request.method = "mcp_call_tool"

\* what a request's JSON says, whatever the handler makes of it
ParamsIsObject(request) == request.params.t = "params"
ToolIdIsString(request) == ParamsIsObject(request) /\ request.params.tool_id.t = "str"
InputsIsObject(request) == ParamsIsObject(request) /\ request.params.inputs.t = "inputs"

RegistryKeys == {tool_registry[i].k : i \in 1..Len(tool_registry)}

\* the message has x among its fragments
MessageNames(message, x) == \E i \in 1..Len(message.parts) : message.parts[i] = x

\* the response is a JSON-RPC error with this code and no result
IsErrorResponse(resp, code) ==
    /\ resp.error # None
    /\ resp.error.code = code
    /\ resp.result = None

\* C1: a call whose params is an object with a string tool_id that is no key
\* of the registry and an object inputs is answered by error -32601 whose
\* message names the tool_id, without result and without any execute call.
\* (Stated for the non-empty tool_ids, the ones that reach the registry
\* lookup; the empty string is C6's case.)
C1_UnknownToolIsMethodNotFound ==
    (/\ AnsweredCall
     /\ ToolIdIsString(out.request)
     /\ out.request.params.tool_id.s # ""
     /\ InputsIsObject(out.request)
     /\ out.request.params.tool_id.s \notin RegistryKeys)
    => /\ IsErrorResponse(out.resp, -32601)
       /\ MessageNames(out.resp.error.message, out.request.params.tool_id.s)
       /\ out.calls = <<>>

\* C2: when the execute function of a registered tool returns a value
\* (success or failure status), the response's result is that value and the
\* response has no error.
C2_ReturnedOutcomeIsResult ==
    (/\ AnsweredCall
     /\ out.calls # <<>>
     /\ out.calls[1].kind = "return")
    => /\ out.resp.result = out.calls[1].value
       /\ out.resp.error = None
       /\ out.calls[1].value.status \in {"success", "failure"}

\* C2 witness: a failure outcome returned by execute is the response's result
C2_Witness ==
    /\ AnsweredCall
    /\ out.calls # <<>>
    /\ out.calls[1].kind = "return"
    /\ out.calls[1].value.status = "failure"
    /\ out.resp.result = out.calls[1].value

\* C3: when the execute function of a registered tool raises, the handler
\* still returns a response: no error field, and a result with status
\* failure, output null and an error string.
C3_RaiseBecomesFailureResult ==
    (/\ AnsweredCall
     /\ out.calls # <<>>
     /\ out.calls[1].kind = "raise")
    => /\ out.resp.error = None
       /\ out.resp.result # None
       /\ out.resp.result.status = "failure"
       /\ out.resp.result.output = None
       /\ out.resp.result.error # None
       /\ IsStr(out.resp.result.error)

\* C3 witness: an execute function raised and the handler answered
C3_Witness ==
    /\ AnsweredCall
    /\ out.calls # <<>>
    /\ out.calls[1].kind = "raise"
    /\ out.resp.result # None

\* C4: a call whose params is absent or no object is answered by error
\* -32602 without result; no execute function is invoked and the registry
\* and the client handles are as before.
C4_NonObjectParamsRejected ==
    [][(/\ out = None
        /\ out' # None
        /\ out'.request.method = "mcp_call_tool"
        /\ ~ParamsIsObject(out'.request))
       => /\ IsErrorResponse(out'.resp, -32602)
          /\ out'.calls = <<>>
          /\ UNCHANGED <<tool_registry, tavily_client, google_sheets_service>>]_vars

\* C4 witness: a call with an array as params was answered while tools were registered
C4_Witness ==
    /\ AnsweredCall
    /\ out.request.params = List(1)
    /\ tool_registry # EmptyDict
    /\ out.resp.error # None

\* C5: a call whose params is an object whose tool_id is missing or no
\* string is answered by error -32602 with the tool_id message, which is
\* neither the params message nor the inputs message, whatever inputs is,
\* and no execute function is invoked.
C5_BadToolIdMessage ==
    (/\ AnsweredCall
     /\ ParamsIsObject(out.request)
     /\ ~ToolIdIsString(out.request))
    => /\ IsErrorResponse(out.resp, -32602)
       /\ out.resp.error.message = ToolIdError.message
       /\ out.resp.error.message # ParamsError.message
       /\ out.resp.error.message # InputsError.message
       /\ out.calls = <<>>

\* C6: for a call whose params is an object with a string tool_id: inputs
\* absent, null or no object gives error -32602 with the inputs message and
\* no execute call; an object as inputs, the empty one too, passes the
\* validation (the answer is no -32602 error).
C6_InputsValidation ==
    (/\ AnsweredCall
     /\ ToolIdIsString(out.request))
    => IF InputsIsObject(out.request)
       THEN ~(out.resp.error # None /\ out.resp.error.code = -32602)
       ELSE /\ IsErrorResponse(out.resp, -32602)
            /\ out.resp.error.message = InputsError.message
            /\ out.calls = <<>>

\* C7: a request whose method is neither mcp_list_tools nor mcp_call_tool is
\* answered, whatever its params, by error -32601 whose message names the
\* method, without result and without any execute call.
C7_UnknownMethod ==
    (/\ Answered
     /\ out.request.method \notin {"mcp_list_tools", "mcp_call_tool"})
    => /\ IsErrorResponse(out.resp, -32601)
       /\ MessageNames(out.resp.error.message, out.request.method)
       /\ out.calls = <<>>

\* C7 witness: an unknown method carrying the params of a good call of a registered tool
C7_Witness ==
    /\ Answered
    /\ out.request.method = "rpc.discover"
    /\ out.request.params = Params(Str("google_sheets_read"), Inputs("valid"), FALSE)
    /\ "google_sheets_read" \in RegistryKeys
    /\ out.resp.error # None

\* C8: every response carries the id of the request it answers, null when
\* the request had none, also when other requests are in flight.
C8_IdEchoed ==
    Answered => out.resp.id = out.request.id

\* C8 witness: a suspended call without id is answered while a call with an
\* id is still suspended
C8_Witness ==
    /\ AnsweredCall
    /\ out.calls # <<>>
    /\ out.calls[1].func = Fn("execute_tavily_search")
    /\ out.calls[1].value.status = "success"
    /\ out.request.id = None
    /\ out.resp.id = None
    /\ Len(inflight) >= 1
    /\ inflight[1].request.id # None

\* C9: every response has exactly one of result and error set.
C9_ExactlyOneOfResultAndError ==
    Answered => ((out.resp.result # None) # (out.resp.error # None))

\* C9 witness: mcp_list_tools answered from an empty registry
C9_Witness ==
    /\ Answered
    /\ out.request.method = "mcp_list_tools"
    /\ tool_registry = EmptyDict
    /\ out.resp.result = ListResult(<<>>)
    /\ out.resp.error = None

\* C10: a response with an error field comes from a run that invoked no
\* execute function, and a run that invoked one answers with a result and
\* no error.
C10_ErrorTiersDisjoint ==
    Answered =>
        /\ (out.resp.error # None => out.calls = <<>>)
        /\ (out.calls # <<>> => (out.resp.result # None /\ out.resp.error = None))

\* C10 witness: an upstream failure of the search, reported as a result
C10_Witness ==
    /\ AnsweredCall
    /\ out.calls # <<>>
    /\ out.resp.result = Failure(<<"Tool execution error: ", "e1">>)
    /\ out.resp.error = None

----------------------------------------------------------------------------
(* Properties of the registration *)

\* the register_tool call that has just returned or raised, in a step
RegisterStep == Len(register_log') = Len(register_log) + 1
LastRegister == register_log[Len(register_log)]

\* the names some register_tool call has registered without raising: those
\* of the import and those of the later calls
ImportedNames == {"tavily_search", "google_sheets_append", "google_sheets_read",
                  "google_sheets_update"}
RegisteredNames ==
    ImportedNames
    \cup {register_log[i].call.tool_name :
             i \in {j \in 1..Len(register_log) : ~register_log[j].raised}}

\* the keys of a dict, as a set
KeySet(d) == {d[i].k : i \in 1..Len(d)}

\* the names of the descriptors a list response holds
ListedNames(resp) == {resp.result.items[i].tool_name : i \in 1..Len(resp.result.items)}

AnsweredList == Answered /\ out.request.method = "mcp_list_tools"

\* C11: a register_tool call whose tool_name is not the descriptor's
\* tool_name raises and leaves the three tables (and the registry) as they
\* were; a name no call has registered without raising is in no table, in no
\* list response, and no execute function is invoked for it.
C11_MismatchRejected ==
    /\ [][(RegisterStep
           /\ register_log'[Len(register_log')].call.tool_name
                 # register_log'[Len(register_log')].call.definition.tool_name)
          => /\ register_log'[Len(register_log')].raised
             /\ UNCHANGED <<TOOL_DEFINITIONS, TOOL_EXECUTORS, TOOL_INITIALIZERS,
                            tool_registry>>]_vars
    /\ [](/\ KeySet(TOOL_DEFINITIONS) \subseteq RegisteredNames
          /\ KeySet(TOOL_EXECUTORS) \subseteq RegisteredNames
          /\ RegistryKeys \subseteq RegisteredNames
          /\ (AnsweredList => ListedNames(out.resp) \subseteq RegisteredNames)
          /\ ((AnsweredCall /\ out.calls # <<>>)
                => out.request.params.tool_id.s \in RegisteredNames))

\* C11 witness: extra_tool was registered with another name's descriptor,
\* a pass has run since, and a call of extra_tool finds no such tool
C11_Witness ==
    /\ register_log # <<>>
    /\ LastRegister.raised
    /\ LastRegister.call.tool_name = "extra_tool"
    /\ LastRegister.call.definition.tool_name = "google_sheets_read"
    /\ "extra_tool" \notin RegisteredNames
    /\ fresh
    /\ AnsweredCall
    /\ out.request.params.tool_id = Str("extra_tool")
    /\ out.calls = <<>>
    /\ out.resp.result = call_tool_not_found("extra_tool")

\* the register_tool calls that registered name without raising, by their
\* place in register_log
RegistrationsOf(name) ==
    {i \in 1..Len(register_log) :
        ~register_log[i].raised /\ register_log[i].call.tool_name = name}

\* the arguments of the import's registration of name
ImportedCall(name) ==
    CASE name = "tavily_search" ->
            [definition |-> get_tavily_search_tool_definition,
             executor |-> Fn("execute_tavily_search")]
      [] name = "google_sheets_append" ->
            [definition |-> get_google_sheets_append_tool_definition,
             executor |-> Fn("execute_google_sheets_append")]
      [] name = "google_sheets_read" ->
            [definition |-> get_google_sheets_read_tool_definition,
             executor |-> Fn("execute_google_sheets_read")]
      [] name = "google_sheets_update" ->
            [definition |-> get_google_sheets_update_tool_definition,
             executor |-> Fn("execute_google_sheets_update")]

\* the descriptor and the execute function given at the latest registration
\* of name
LastRegistration(name) ==
    IF RegistrationsOf(name) = {}
    THEN ImportedCall(name)
    ELSE LET i == CHOOSE i \in RegistrationsOf(name) : \A j \in RegistrationsOf(name) : j <= i
         IN  [definition |-> register_log[i].call.definition,
              executor |-> register_log[i].call.executor]

\* C12: after register_tool calls and a registration pass, mcp_list_tools,
\* whatever its params, answers with a result array that holds one descriptor
\* for each registered name and nothing else, each the descriptor given when
\* the name was (last) registered; its length is the number of registered
\* names.
C12_ListIsTheRegisteredTools ==
    (AnsweredList /\ fresh) =>
        LET items == out.resp.result.items
        IN  /\ out.resp.error = None
            /\ out.resp.result.t = "array"
            /\ Len(items) = Cardinality(RegisteredNames)
            /\ ListedNames(out.resp) = RegisteredNames
            /\ \A i \in 1..Len(items) :
                  items[i] = model_dump(LastRegistration(items[i].tool_name).definition)

\* C12 witness: google_sheets_read registered again and extra_tool added,
\* then a pass, then a list request with an array for params
C12_Witness ==
    /\ AnsweredList
    /\ fresh
    /\ out.request.params = List(1)
    /\ RegistrationsOf("google_sheets_read") # {}
    /\ RegistrationsOf("extra_tool") # {}
    /\ Len(out.resp.result.items) = 5
    /\ out.resp.result.items[3] = model_dump(ToolDefinition("google_sheets_read",
                                                            "second description"))

\* the registrations that gave an initializer: those of the import and those
\* of the later calls that did not raise
InitializerRegistrations ==
    {[tool_name |-> "tavily_search",
      initializer |-> Fn("initialize_tavily_search_tool"), shared |-> FALSE]}
    \cup {[tool_name |-> n, initializer |-> Fn("initialize_google_sheets_tool"),
           shared |-> TRUE] :
             n \in {"google_sheets_append", "google_sheets_read", "google_sheets_update"}}
    \cup {[tool_name |-> register_log[i].call.tool_name,
           initializer |-> register_log[i].call.initializer,
           shared |-> register_log[i].call.is_initializer_shared] :
             i \in {j \in 1..Len(register_log) :
                      ~register_log[j].raised /\ register_log[j].call.initializer # None}}

Initializers == {r.initializer : r \in InitializerRegistrations}

\* the tools registered with the flag and this initializer
SharedBy(initializer) ==
    {r.tool_name : r \in {q \in InitializerRegistrations :
                             q.initializer = initializer /\ q.shared}}

\* no tool was registered with this initializer and without the flag
SharedOnly(initializer) ==
    \A r \in InitializerRegistrations : r.initializer = initializer => r.shared

\* how often x occurs in the list
Count(x, lst) == Cardinality({i \in 1..Len(lst) : lst[i] = x})

\* how often a pass called the initializer
TimesInvoked(initializer, invoked) ==
    Cardinality({i \in 1..Len(invoked) : invoked[i].initializer = initializer})

\* C13 as stated: an initializer that two or more tools were registered with
\* under is_initializer_shared=True is in TOOL_INITIALIZERS once, and a pass
\* calls it once.
C13_SharedInitializerListedOnce ==
    \A f \in Initializers :
        Cardinality(SharedBy(f)) >= 2 =>
            /\ Count(f, TOOL_INITIALIZERS) = 1
            /\ (report # None => TimesInvoked(f, report.invoked) = 1)

\* C13 amended: an initializer that two or more tools were registered with
\* under is_initializer_shared=True is called once by every pass; it is in
\* TOOL_INITIALIZERS once if no tool was registered with it and without the
\* flag.
C13_SharedInitializerInvokedOnce ==
    \A f \in Initializers :
        Cardinality(SharedBy(f)) >= 2 =>
            /\ (SharedOnly(f) => Count(f, TOOL_INITIALIZERS) = 1)
            /\ (report # None => TimesInvoked(f, report.invoked) = 1)

\* C13 witness: a fourth tool has joined the three Sheets tools under the
\* flag, and a pass has called the one initializer once
C13_Witness ==
    /\ Cardinality(SharedBy(Fn("initialize_google_sheets_tool"))) = 4
    /\ SharedOnly(Fn("initialize_google_sheets_tool"))
    /\ Count(Fn("initialize_google_sheets_tool"), TOOL_INITIALIZERS) = 1
    /\ report # None
    /\ TimesInvoked(Fn("initialize_google_sheets_tool"), report.invoked) = 1

\* C14: a pass calls every initializer of TOOL_INITIALIZERS, also those
\* after one that raised, and puts every tool of TOOL_DEFINITIONS in the
\* registry, also the tools of an initializer that raised or made no client;
\* mcp_list_tools then lists them all.
C14_PassSurvivesInitializerFailure ==
    /\ report # None =>
          /\ \A i \in 1..Len(TOOL_INITIALIZERS) :
                TimesInvoked(TOOL_INITIALIZERS[i], report.invoked) >= 1
          /\ RegistryKeys = KeySet(TOOL_DEFINITIONS)
    /\ (AnsweredList /\ fresh) => ListedNames(out.resp) = KeySet(TOOL_DEFINITIONS)

\* C14 witness: the Tavily initializer raised, the Sheets initializer was
\* called after it and made no client, and the four tools are registered
C14_Witness ==
    /\ report # None
    /\ Len(report.invoked) = 2
    /\ report.invoked[1].initializer = Fn("initialize_tavily_search_tool")
    /\ report.invoked[1].raised
    /\ report.invoked[2].initializer = Fn("initialize_google_sheets_tool")
    /\ tavily_client = None
    /\ google_sheets_service = None
    /\ RegistryKeys = ImportedNames

\* the failure outcome an execute function gives when its client is not there
NotInitialized(execute_func) ==
    IF execute_func = Fn("execute_tavily_search")
    THEN Failure(<<"Tool error: Tavily client not initialized.">>)
    ELSE Failure(<<"Tool error: Google Sheets client not initialized.">>)

\* a call has been answered whose execute function found its client handle
\* unset: no pass so far made the client, and no earlier call did
AnsweredUninitialized ==
    /\ AnsweredCall
    /\ out.calls # <<>>
    /\ out.calls[1].handle = None

\* C15 as stated: the call of a tool whose client no initializer made is
\* answered by a success envelope whose result is the failure outcome
\* "client not initialized".
C15_UninitializedToolReportsNotInitialized ==
    AnsweredUninitialized =>
        /\ out.resp.error = None
        /\ out.resp.result = NotInitialized(out.calls[1].func)

\* C15 amended: the call of a tool whose client no initializer made is
\* answered by a success envelope with an outcome for result, never by a
\* JSON-RPC error; the outcome is the failure "client not initialized" for
\* tavily_search, and for a Sheets tool when the initialisation the execute
\* function tries again has made no service either; when it has, the outcome
\* is that of a call with a service.
C15_UninitializedToolAnswersWithOutcome ==
    AnsweredUninitialized =>
        /\ out.resp.error = None
        /\ out.resp.result.t = "payload"
        /\ out.resp.result.status \in {"success", "failure"}
        /\ IF out.calls[1].func = Fn("execute_tavily_search") \/ google_sheets_service = None
           THEN out.resp.result = NotInitialized(out.calls[1].func)
           ELSE out.resp.result # NotInitialized(out.calls[1].func)

\* C15 witness: the startup made no Sheets service, the first read finds
\* credentials, makes the service and returns the data
C15_Witness ==
    /\ AnsweredUninitialized
    /\ out.calls[1].func = Fn("execute_google_sheets_read")
    /\ google_sheets_service = Client("sheets")
    /\ out.resp.result = Success(Data("read"))
    /\ out.resp.error = None

\* the two shapes of an invocation outcome, the three keys present in both:
\* success with an output and a null error, failure with a null output and
\* an error string
OutcomeShape(p) ==
    /\ p.t = "payload"
    /\ \/ p.status = "success" /\ p.output \notin {None, Absent} /\ p.error = None
       \/ p.status = "failure" /\ p.output = None /\ p.error.t = "fstr"

InExternalCall == inflight # <<>> \/ blocked # None

\* C17: while a handler is inside the external call of any of the four
\* tools, the server can take another request and run its handler (once the
\* response and the pass before it, if any, are out of the way).
C17_ExternalCallDoesNotStall ==
    (InExternalCall /\ out = None /\ report = None) => ENABLED Handle

\* a step of a request's handler: it returns a response, suspends, enters a
\* synchronous call or comes back from one
RequestStep ==
    \/ out = None /\ out' # None
    \/ inflight' # inflight
    \/ blocked' # blocked

\* C18: after the startup pass no step of a request (mcp_list_tools,
\* mcp_call_tool with any params and outcome, an unknown method, GET
\* /schema) changes the registry.
C18_RequestsLeaveRegistry ==
    [][RequestStep => tool_registry' = tool_registry]_vars

\* C18 witness: a call that raised inside its execute function has been
\* answered and the four tools are registered as before
C18_Witness ==
    /\ AnsweredCall
    /\ out.calls # <<>>
    /\ out.calls[1].kind = "raise"
    /\ tool_registry = RegisterAll(ImportedTables.defs, ImportedTables.execs)

\* how often name has been registered without a raise, the import counted
TimesRegistered(name) ==
    Cardinality(RegistrationsOf(name)) + (IF name \in ImportedNames THEN 1 ELSE 0)

\* C19: a second register_tool call for a name does not raise (unless its
\* descriptor carries another name), and after a pass the registry has one
\* entry for a name registered twice or more, with the descriptor and the
\* execute function of the latest registration.
C19_LastRegistrationWins ==
    /\ \A i \in 1..Len(register_log) :
          register_log[i].raised
              <=> (register_log[i].call.tool_name
                     # register_log[i].call.definition.tool_name)
    /\ fresh =>
          \A name \in {n \in RegisteredNames : TimesRegistered(n) >= 2} :
              /\ Cardinality({i \in 1..Len(tool_registry) : tool_registry[i].k = name}) = 1
              /\ DictGet(tool_registry, name)
                    = RegisteredTool(name, LastRegistration(name).definition,
                                     LastRegistration(name).executor)

\* C19 witness: google_sheets_read, registered by the import with its read
\* function, was registered again with the append function and a second
\* descriptor; after the pass the registry has the second ones
C19_Witness ==
    /\ fresh
    /\ TimesRegistered("google_sheets_read") = 2
    /\ Len(tool_registry) = 4
    /\ DictGet(tool_registry, "google_sheets_read")
          = RegisteredTool("google_sheets_read",
                           ToolDefinition("google_sheets_read", "second description"),
                           Fn("execute_google_sheets_append"))

AnsweredSchema == Answered /\ out.request = SchemaRequest

\* what mcp_list_tools returns in the present state
ListedNow ==
    mcp_rpc_handler([method |-> "mcp_list_tools", params |-> None, id |-> None],
                    tool_registry, tavily_client, google_sheets_service,
                    CHOOSE env \in Envs : TRUE).resp.result

\* C20: in every state the body of GET /schema has the server's name,
\* description and version, and a tools array equal, element for element
\* and in order, to the array mcp_list_tools returns in that state.
C20_SchemaListsWhatListToolsLists ==
    AnsweredSchema =>
        /\ out.resp.name = "Unified MCP Tool Server"
        /\ out.resp.description # ""
        /\ out.resp.version = APP_VERSION
        /\ out.resp.tools = ListedNow
        /\ Len(out.resp.tools.items) = Len(tool_registry)

\* C20 witness: the schema of a server with a fifth tool registered after
\* the import
C20_Witness ==
    /\ AnsweredSchema
    /\ Len(out.resp.tools.items) = 5
    /\ out.resp.tools.items[1].tool_name = "tavily_search"
    /\ out.resp.tools.items[5].tool_name = "extra_tool"

\* the place of the first occurrence of x in the list
FirstIndex(x, lst) == CHOOSE i \in 1..Len(lst) : lst[i] = x /\ \A j \in 1..(i - 1) : lst[j] # x

\* C21: one run of initialize_all_tools calls every initializer of the list
\* once and no other, however often the list holds it, and calls them in the
\* order of their first occurrences; the run is over when the pass returns.
C21_EachInitializerOnceInOrder ==
    report # None =>
        LET called == report.invoked
        IN  /\ \A i \in 1..Len(TOOL_INITIALIZERS) :
                  TimesInvoked(TOOL_INITIALIZERS[i], called) = 1
            /\ \A i \in 1..Len(called) : InList(called[i].initializer, TOOL_INITIALIZERS)
            /\ \A i, j \in 1..Len(called) :
                  i < j => FirstIndex(called[i].initializer, TOOL_INITIALIZERS)
                             < FirstIndex(called[j].initializer, TOOL_INITIALIZERS)

\* C21 witness: two registrations without the flag have put the Sheets
\* initializer in the list three times, and the pass has called the Tavily
\* initializer, then the Sheets one, once each
C21_Witness ==
    /\ report # None
    /\ Count(Fn("initialize_google_sheets_tool"), TOOL_INITIALIZERS) = 3
    /\ Len(report.invoked) = 2
    /\ report.invoked[1].initializer = Fn("initialize_tavily_search_tool")
    /\ report.invoked[2].initializer = Fn("initialize_google_sheets_tool")

\* the environments in which the API call of a Sheets execute function ends
\* in an exception that leaves the function
RaisingEnvs == {env \in Envs : env.api.kind = "http_error_raise"}

\* the response of the handler that is inside its API call, if the call ends
\* as env says
ResponseIf(env) ==
    mcp_rpc_handler(blocked.request, tool_registry, tavily_client,
                    google_sheets_service, env).resp

\* C22: two runs of a call that differ only in the exception the execute
\* function raises get the same response: the failure outcome's message
\* does not carry the exception's text.
C22_RaiseResponseIndependentOfException ==
    blocked # None =>
        \A env1, env2 \in RaisingEnvs :
            /\ ResponseIf(env1) = ResponseIf(env2)
            /\ ~MessageNames(ResponseIf(env1).result.error, env1.api.exc)

\* the request is a call that the handler's three checks let through
PassesValidation(request) ==
    /\ request.method = "mcp_call_tool"
    /\ ~ParamsInvalid(request.params)
    /\ ~ToolIdInvalid(ParamsGet(request.params, "tool_id"))
    /\ ~InputsInvalid(ParamsGet(request.params, "inputs"))

\* the request is a valid call of a tool of the registry
CallsRegisteredTool(request) ==
    /\ PassesValidation(request)
    /\ ParamsGet(request.params, "tool_id").s \in RegistryKeys

\* C23: the handler of a valid call of a registered tool invokes the tool's
\* execute function once, whether it returns a success, returns a failure or
\* raises, and has invoked it once while it is inside the external call;
\* the handler of any other request invokes no execute function.
C23_ExecuteInvokedOnce ==
    /\ Answered =>
          Len(out.calls) = (IF CallsRegisteredTool(out.request) THEN 1 ELSE 0)
    /\ \A i \in 1..Len(inflight) :
          CallsRegisteredTool(inflight[i].request) /\ Len(inflight[i].calls) = 1
    /\ blocked # None =>
          CallsRegisteredTool(blocked.request) /\ Len(blocked.calls) = 1

\* C23 witness: a read whose execute function raised has been answered with
\* the internal-error outcome after one invocation
C23_Witness ==
    /\ AnsweredCall
    /\ CallsRegisteredTool(out.request)
    /\ Len(out.calls) = 1
    /\ out.calls[1].kind = "raise"
    /\ out.resp.result = call_tool_except("google_sheets_read", out.calls[1].exc)

\* the registry holds every tool of the tables, in their order, each with
\* its descriptor and its execute function
RegistryComplete ==
    /\ Len(tool_registry) = Len(TOOL_DEFINITIONS)
    /\ \A i \in 1..Len(tool_registry) :
          /\ tool_registry[i].k = TOOL_DEFINITIONS[i].k
          /\ tool_registry[i].v = RegisteredTool(TOOL_DEFINITIONS[i].k, TOOL_DEFINITIONS[i].v,
                                                 DictGet(TOOL_EXECUTORS, TOOL_DEFINITIONS[i].k))

PassStep == report = None /\ report' # None

\* C25: once a tool's client handle is set, no step changes it: a call of
\* the tool's initializer by a later pass, or by a Sheets execute function,
\* returns without raising and without making a client, the handle being
\* the same object afterwards.
C25_InitializersIdempotent ==
    [][/\ (tavily_client # None => tavily_client' = tavily_client)
       /\ (google_sheets_service # None => google_sheets_service' = google_sheets_service)
       /\ PassStep =>
             \A i \in 1..Len(report'.invoked) :
                 report'.invoked[i].handle # None => ~report'.invoked[i].raised]_vars

\* C25 witness: a pass has called both initializers with their clients
\* already there, the TavilyClient constructor being one that would raise,
\* and both handles are the first objects
C25_Witness ==
    /\ report # None
    /\ Len(report.invoked) = 2
    /\ report.invoked[1].handle = Client("tavily")
    /\ report.invoked[2].handle = Client("sheets")
    /\ tavily_client = Client("tavily")
    /\ google_sheets_service = Client("sheets")

\* C26: however passes and first uses of the execute functions interleave,
\* each client is constructed at most once (the handle is unset or the first
\* object), and an execute function inside its external call works with the
\* handle the module still has: none has been replaced under it.
C26_ClientConstructedAtMostOnce ==
    /\ tavily_client \in {None, Client("tavily")}
    /\ google_sheets_service \in {None, Client("sheets")}
    /\ \A i \in 1..Len(inflight) : inflight[i].calls[1].handle = tavily_client
    /\ blocked # None =>
          /\ google_sheets_service # None
          /\ blocked.calls[1].handle \in {None, google_sheets_service}

\* C26 witness: while a search is suspended, a Sheets call that found no
\* service has made one itself and is inside its API call
C26_Witness ==
    /\ inflight # <<>>
    /\ blocked # None
    /\ blocked.calls[1].handle = None
    /\ google_sheets_service = Client("sheets")

\* C27: in every state, whatever register_tool calls (accepted or rejected)
\* and passes came before, each entry of TOOL_DEFINITIONS is under the key
\* that is its descriptor's tool_name, and each entry of the registry is
\* under the key that is its descriptor's tool_name and its own name.
C27_KeysAreDescriptorNames ==
    /\ \A i \in 1..Len(TOOL_DEFINITIONS) :
          TOOL_DEFINITIONS[i].k = TOOL_DEFINITIONS[i].v.tool_name
    /\ \A i \in 1..Len(tool_registry) :
          /\ tool_registry[i].k = tool_registry[i].v.definition.tool_name
          /\ tool_registry[i].k = tool_registry[i].v.name

\* C27 witness: one later call was rejected and one registered extra_tool,
\* and a pass has put the five tools in the registry
C27_Witness ==
    /\ \E i \in 1..Len(register_log) : register_log[i].raised
    /\ RegistrationsOf("extra_tool") # {}
    /\ fresh
    /\ Len(tool_registry) = 5
    /\ tool_registry[5].v.name = "extra_tool"

\* the registrations that did not raise, in the order they were made: the
\* four of the import, then the later ones
ImportedOrder ==
    <<"tavily_search", "google_sheets_append", "google_sheets_read", "google_sheets_update">>
RegistrationsInOrder ==
    LET Accepted(e) == ~e.raised
        later == SelectSeq(register_log, Accepted)
    IN  [i \in 1..4 |-> [tool_name |-> ImportedOrder[i],
                         definition |-> ImportedCall(ImportedOrder[i]).definition]]
        \o [i \in 1..Len(later) |-> [tool_name |-> later[i].call.tool_name,
                                      definition |-> later[i].call.definition]]

\* the registered names are distinct: no name was registered twice
DistinctNames ==
    \A i, j \in 1..Len(RegistrationsInOrder) :
        i # j => RegistrationsInOrder[i].tool_name # RegistrationsInOrder[j].tool_name

\* C28: after registrations under distinct names and a pass, the i-th
\* descriptor mcp_list_tools returns is the descriptor of the i-th
\* registration.
C28_ListInRegistrationOrder ==
    (AnsweredList /\ fresh /\ DistinctNames) =>
        /\ Len(out.resp.result.items) = Len(RegistrationsInOrder)
        /\ \A i \in 1..Len(RegistrationsInOrder) :
              out.resp.result.items[i] = model_dump(RegistrationsInOrder[i].definition)

\* C28 witness: extra_tool was registered after the import's four tools and
\* is the fifth descriptor of the list
C28_Witness ==
    /\ AnsweredList
    /\ fresh
    /\ DistinctNames
    /\ Len(RegistrationsInOrder) = 5
    /\ out.resp.result.items[1].tool_name = "tavily_search"
    /\ out.resp.result.items[4].tool_name = "google_sheets_update"
    /\ out.resp.result.items[5] = model_dump(ToolDefinition("extra_tool", "second description"))

\* C29: after any register_tool calls, accepted or rejected, TOOL_DEFINITIONS
\* and TOOL_EXECUTORS have the same keys: every name with a descriptor has an
\* execute function and every name with an execute function has a descriptor.
C29_TablesHaveSameKeys ==
    /\ KeySet(TOOL_DEFINITIONS) = KeySet(TOOL_EXECUTORS)
    /\ \A name \in KeySet(TOOL_DEFINITIONS) :
          DictGet(TOOL_DEFINITIONS, name) # None /\ DictGet(TOOL_EXECUTORS, name) # None

\* C29 witness: one call was rejected and one accepted, and the accepted new
\* name is in both tables
C29_Witness ==
    /\ Len(register_log) = 2
    /\ register_log[1].raised
    /\ ~register_log[2].raised
    /\ register_log[2].call.tool_name = "extra_tool"
    /\ DictHas(TOOL_DEFINITIONS, "extra_tool")
    /\ DictHas(TOOL_EXECUTORS, "extra_tool")
    /\ Len(TOOL_DEFINITIONS) = 5

\* C30: a pass that follows a pass, with no register_tool call accepted in
\* between, leaves the registry with the same keys, descriptors and execute
\* functions, and calls each distinct initializer of TOOL_INITIALIZERS once.
C30_PassIsIdempotent ==
    [][(PassStep /\ fresh) =>
          /\ tool_registry' = tool_registry
          /\ \A i \in 1..Len(TOOL_INITIALIZERS) :
                TimesInvoked(TOOL_INITIALIZERS[i], report'.invoked) = 1
          /\ Len(report'.invoked) = Cardinality({TOOL_INITIALIZERS[i] : i \in 1..Len(TOOL_INITIALIZERS)})]_vars

\* C30 witness: no register_tool call was made, a pass has run with both
\* clients already made, the Tavily one by an earlier pass, and the registry
\* still has the import's four tools
C30_Witness ==
    /\ register_log = <<>>
    /\ report # None
    /\ Len(report.invoked) = 2
    /\ \A i \in 1..2 : report.invoked[i].handle # None /\ ~report.invoked[i].raised
    /\ RegistryComplete
    /\ DictKeys(tool_registry) = ImportedOrder

\* the invocations in sight: those of the answered request, of the handler
\* inside a Sheets API call and of the suspended searches
Invocations ==
    (IF out # None THEN {out.calls[i] : i \in 1..Len(out.calls)} ELSE {})
    \cup (IF blocked # None THEN {blocked.calls[i] : i \in 1..Len(blocked.calls)} ELSE {})
    \cup {inflight[i].calls[1] : i \in 1..Len(inflight)}

\* the invocation of the answered call found its client handle unset
AnsweredUnset(c) ==
    /\ AnsweredCall
    /\ out.calls = <<c>>
    /\ c.handle = None

\* what every invocation in sight did about initialisation
LazyInitialisation ==
    \A c \in Invocations :
        IF c.func = Fn("execute_tavily_search")
        THEN /\ c.initializer_calls = <<>>
             /\ AnsweredUnset(c) =>
                   /\ out.resp.result = NotInitialized(c.func)
                   /\ tavily_client = None
        ELSE /\ c.handle = None =>
                   c.initializer_calls = <<Fn("initialize_google_sheets_tool")>>
             /\ AnsweredUnset(c) =>
                   IF google_sheets_service = None
                   THEN out.resp.result = NotInitialized(c.func) /\ ~c.api
                   ELSE /\ out.resp.result # NotInitialized(c.func)
                        /\ c.api = (out.request.params.inputs.fields = "valid")
             /\ (blocked # None /\ c \in {blocked.calls[i] : i \in 1..Len(blocked.calls)}) =>
                   google_sheets_service # None /\ c.api

\* C31: a Sheets execute function that finds the service unset calls
\* initialize_google_sheets_tool once, returns the not-initialized failure
\* when the service is still unset and goes on as with a service otherwise;
\* execute_tavily_search never calls an initializer and returns the
\* not-initialized failure whenever the client is unset, and only a
\* registration pass sets the client.
C31_LazyInitialisationAtInvocation ==
    /\ []LazyInitialisation
    /\ [][tavily_client' # tavily_client => PassStep]_vars

\* C31 witness: with no Tavily client, an append that found the service unset
\* has called the initializer once, which made the service, and has succeeded
C31_Witness ==
    /\ AnsweredCall
    /\ tavily_client = None
    /\ Len(out.calls) = 1
    /\ out.calls[1].func = Fn("execute_google_sheets_append")
    /\ out.calls[1].handle = None
    /\ out.calls[1].initializer_calls = <<Fn("initialize_google_sheets_tool")>>
    /\ google_sheets_service = Client("sheets")
    /\ out.resp.result.status = "success"

====
